---- MODULE Spec2Model ----
(***************************************************************************)
(* Model of new_concrete_mix.py: the MixDesignCalculator class and the     *)
(* Streamlit script that drives it.                                        *)
(*                                                                         *)
(* Numbers are fixed point.  The scales are                                *)
(*   masses                          0.1 kg      (what round(x, 1) keeps)  *)
(*   slump                           1 mm                                  *)
(*   ratios and specific gravities   0.01        (the widgets' step)       *)
(*   percentages                     0.1 %       (the widgets' step)       *)
(*   volumes                         1e-8 m3                               *)
(*   masses before rounding          1e-5 kg                               *)
(* round() is modelled on the exact quotient, ties to even; the float      *)
(* arithmetic of the source can differ from this in the last digit kept.   *)
(***************************************************************************)
EXTENDS Integers, Sequences, FiniteSets, TLC

VARIABLES
    version,         \* st.__version__ of the installed Streamlit
    form,            \* the values held by the input widgets
    pc,              \* the section of the script the current run is at
    trigger,         \* the event that started the current run
    screen,          \* the elements the current run has put on the page
    session_result,  \* st.session_state.result, None while the key is absent
    displayed,       \* the result the current run shows and exports
    captured,        \* history: input_params of the latest successful click
    calculator,      \* the MixDesignCalculator object: [params, result]
    given,           \* history: the parameter record calculator was built with
    returned,        \* outcome of the latest calculate() call on calculator
    memo             \* history: an earlier call, [params, outcome]

vars == <<version, form, pc, trigger, screen, session_result, displayed,
          captured, calculator, given, returned, memo>>
appVars == <<version, form, pc, trigger, screen, session_result, displayed,
             captured>>

\* an absent value is the empty sequence, a present one a sequence of one
None == <<>>
Some(x) == <<x>>

Max(a, b) == IF a >= b THEN a ELSE b
Min(a, b) == IF a <= b THEN a ELSE b
Abs(a) == IF a >= 0 THEN a ELSE -a

\* nearest integer to n / d (d > 0), ties to the even neighbour, as round()
RoundDiv(n, d) ==
    LET q == n \div d
        r == n - q * d
    IN  IF 2 * r < d THEN q
        ELSE IF 2 * r > d THEN q + 1
        ELSE IF q % 2 = 0 THEN q ELSE q + 1

\* a * b / c (c > 0) to the nearest integer, without forming a * b
MulDiv(a, b, c) == (a \div c) * b + RoundDiv((a % c) * b, c)

\* 1 m3 in volume units
VolUnit == 100000000

-----------------------------------------------------------------------------
(* MixDesignCalculator *)

\* self.result = {} after __init__
EmptyResult == [x \in {} |-> 0]

\* MixDesignCalculator(params)
NewCalculator(params) == [params |-> params, result |-> EmptyResult]

\* as estimate_water_content with 0.3 kg/m3 per mm of slump in place of 0.8
estimate_water_content_slope03(self) ==
    IF self.params.use_slump_for_water
    THEN Max(1300, Min(2100, 1300 + (self.params.slump - 25) * 3))
    ELSE 1850

\* water content in 0.1 kg
estimate_water_content(self) ==
    IF self.params.use_slump_for_water
    THEN Max(1300, Min(2100, 1300 + (self.params.slump - 25) * 8))
    ELSE 1850

\* water / w_c_ratio as a fraction <<numerator, denominator>> of kg
calculate_cement_content(self, water_content) ==
    <<water_content * 10, self.params.w_c_ratio>>

\* cement * admixture_pct / 100 as a fraction of kg
calculate_admixture_dose(self, cement_content) ==
    <<cement_content * self.params.admixture_pct, 10000>>

\* round(x, 1) of a fraction of kg, in 0.1 kg
Round1(frac) == RoundDiv(frac[1] * 10, frac[2])

\* mass / (sg * 1000), in 1e-8 m3
cement_vol(self, cement) == MulDiv(cement, 1000000, self.params.cement_sg)
water_vol(self, water) == MulDiv(water, 1000000, self.params.water_sg)
admixture_vol(admixture) == MulDiv(admixture, 1000000, 105)

\* as calculate_aggregate_volumes with the operands of the subtraction
\* swapped
calculate_aggregate_volumes_swapped(self, cement, water, admixture) ==
    (cement_vol(self, cement) + water_vol(self, water)
     + admixture_vol(admixture)) - VolUnit

\* 1 - (cement_vol + water_vol + admixture_vol)
calculate_aggregate_volumes(self, cement, water, admixture) ==
    VolUnit - (cement_vol(self, cement) + water_vol(self, water)
               + admixture_vol(admixture))

\* ratio * total_agg_vol, in 1e-8 m3
AggVol(ratio, total_agg_vol) == MulDiv(total_agg_vol, ratio, 100)

\* ratio * total_agg_vol * sg * 1000, in 1e-5 kg
MassSSD(ratio, sg, total_agg_vol) ==
    MulDiv(AggVol(ratio, total_agg_vol), sg, 100)

\* 1 + (moisture_content - absorption) / 100, in 0.001
Correction(moisture, absorption) == 1000 + moisture - absorption

\* mass_ssd * correction, rounded to 0.1 kg
CorrectedMass(mass_ssd, correction) ==
    RoundDiv(MulDiv(mass_ssd, correction, 1000), 10000)

\* returns <<fa_mass, ca_mass>>
calculate_aggregate_masses(self, total_agg_vol) ==
    LET p == self.params
        fa_mass_ssd == MassSSD(p.fa_ratio, p.fa_sg, total_agg_vol)
        ca_mass_ssd == MassSSD(p.ca_ratio, p.ca_sg, total_agg_vol)
        fa_correction == Correction(p.moisture_content, p.fa_abs)
        ca_correction == Correction(p.moisture_content, p.ca_abs)
    IN  << CorrectedMass(fa_mass_ssd, fa_correction),
           CorrectedMass(ca_mass_ssd, ca_correction) >>

\* a division whose divisor is 0.0 raises ZeroDivisionError
Raises(self) ==
    \/ self.params.w_c_ratio = 0
    \/ self.params.cement_sg = 0
    \/ self.params.water_sg = 0

\* as StoreResult, also clearing the slump flag in the parameter record
StoreResultClearFlag(self, result) ==
    [self EXCEPT !.result = result, !.params.use_slump_for_water = FALSE]

\* self.result = {...}
StoreResult(self, result) == [self EXCEPT !.result = result]

\* calculate(): raised tells whether it ended in an exception, result is the
\* dict it returned, self the object it leaves behind
calculate(self) ==
    IF Raises(self) THEN [raised |-> TRUE, self |-> self]
    ELSE
    LET water == estimate_water_content(self)
        cement == Round1(calculate_cement_content(self, water))
        admixture == Round1(calculate_admixture_dose(self, cement))
        total_agg_vol ==
            calculate_aggregate_volumes(self, cement, water, admixture)
        masses == calculate_aggregate_masses(self, total_agg_vol)
        result == [Water |-> water,
                   Cement |-> cement,
                   FineAggregate |-> masses[1],
                   CoarseAggregate |-> masses[2],
                   Admixture |-> admixture]
    IN  [raised |-> FALSE, result |-> result,
         self |-> StoreResult(self, result)]

-----------------------------------------------------------------------------
(* parameter records *)

ParamFields ==
    {"use_slump_for_water", "slump", "w_c_ratio", "cement_sg", "water_sg",
     "admixture_pct", "fa_ratio", "fa_sg", "fa_abs", "ca_sg", "ca_abs",
     "moisture_content", "ca_ratio"}

\* the values the input widgets start with
FormDefaults ==
    [fck |-> 250, use_slump_for_water |-> FALSE, slump |-> 75,
     w_c_ratio |-> 50, cement_sg |-> 315, water_sg |-> 100,
     admixture_pct |-> 0, fa_ratio |-> 35, fa_sg |-> 265, fa_abs |-> 10,
     ca_sg |-> 265, ca_abs |-> 5, moisture_content |-> 20, ca_ratio |-> 65]

\* input_params = {...}: the widget values the calculator is given
InputParams(f) == [k \in ParamFields |-> f[k]]

Defaults == InputParams(FormDefaults)

\* the ends of every widget's range, and the inner values the claims need
WidgetCorners ==
    [use_slump_for_water : BOOLEAN, slump : {25, 75, 200},
     w_c_ratio : {30, 50, 70}, cement_sg : {200, 400}, water_sg : {90, 110},
     admixture_pct : {0, 100}, fa_ratio : {20, 60}, fa_sg : {240, 280},
     fa_abs : {0, 50}, ca_sg : {240, 280}, ca_abs : {0, 50},
     moisture_content : {0, 100}, ca_ratio : {30, 80}]

InRangeParams == WidgetCorners \cup {Defaults}

\* records a caller can hand to MixDesignCalculator without the form
DirectParams ==
    { [Defaults EXCEPT !.use_slump_for_water = u, !.slump = s,
                       !.w_c_ratio = w, !.cement_sg = c, !.fa_ratio = f] :
        u \in BOOLEAN, s \in {75, 200}, w \in {0, 5, 50},
        c \in {100, 315}, f \in {35, 60} }

-----------------------------------------------------------------------------
(* calculate() called on calculator objects *)

\* the script is not running while a caller uses the class on its own
NoScript ==
    /\ version = "1.32.2"
    /\ form = FormDefaults
    /\ pc = "idle"
    /\ trigger = "load"
    /\ screen = {}
    /\ session_result = None
    /\ displayed = None
    /\ captured = None

InitCalc ==
    /\ NoScript
    /\ \E p \in InRangeParams :
        /\ given = Some(p)
        /\ calculator = Some(NewCalculator(p))
    /\ returned = None
    /\ memo = None

InitDirect ==
    /\ NoScript
    /\ \E p \in DirectParams :
        /\ given = Some(p)
        /\ calculator = Some(NewCalculator(p))
    /\ returned = None
    /\ memo = None

\* what the caller of calculate() gets: the exception or the dict
Outcome(out) ==
    IF out.raised THEN [raised |-> TRUE]
    ELSE [raised |-> FALSE, result |-> out.result]

\* calculator = MixDesignCalculator(p)
Construct ==
    /\ \E p \in DirectParams :
        /\ given' = Some(p)
        /\ calculator' = Some(NewCalculator(p))
    /\ returned' = None
    /\ UNCHANGED <<appVars, memo>>

\* calculator.calculate()
CallCalculate ==
    /\ calculator # None
    /\ LET out == calculate(calculator[1])
       IN  /\ returned' = Some(Outcome(out))
           /\ calculator' = Some(out.self)
    /\ UNCHANGED <<appVars, given, memo>>

\* the caller puts the outcome it holds aside for a later comparison
Remember ==
    /\ returned # None
    /\ memo' = Some([params |-> given[1], outcome |-> returned[1]])
    /\ returned' = None
    /\ UNCHANGED <<appVars, calculator, given>>

NextCalc == CallCalculate

SpecCalc == InitCalc /\ [][NextCalc]_vars

NextDirect == Construct \/ CallCalculate \/ Remember

SpecDirect == InitDirect /\ [][NextDirect]_vars

-----------------------------------------------------------------------------
(* the Streamlit script *)

\* install_requires pins this version
PinnedVersion == "1.32.0"

Versions == {PinnedVersion, "1.32.2", "1.33.0"}

\* as VersionOk, comparing the major and minor numbers only
VersionOkMinor(v) == v \in {"1.32.0", "1.32.2"}

\* not (st.__version__ != "1.32.2")
VersionOk(v) == v = "1.32.2"

\* what the widgets let the user set each field to
FieldChoices ==
    [fck |-> {250, 400}, use_slump_for_water |-> BOOLEAN,
     slump |-> {75, 200}, w_c_ratio |-> {50, 30}, cement_sg |-> {315, 200},
     water_sg |-> {100, 90}, admixture_pct |-> {0, 100},
     fa_ratio |-> {35, 60}, fa_sg |-> {265, 280}, fa_abs |-> {10, 50},
     ca_sg |-> {265, 240}, ca_abs |-> {5, 0},
     moisture_content |-> {20, 100}, ca_ratio |-> {65, 30}]

\* fields of the form that differ from the widget defaults
Changed(f) == Cardinality({k \in DOMAIN f : f[k] # FormDefaults[k]})

MaxChanged == 1

\* as ButtonPressed for a handler that is not guarded by the button
ButtonPressedAlways(t) == TRUE

\* st.button(...) is True only in the run its click started
ButtonPressed(t) == t = "calculate"

\* as StoredAfterClick, storing the calculator's result dict on failure too
StoredAfterClickDefault(old, out) ==
    IF out.raised THEN Some(out.self.result) ELSE Some(out.result)

\* st.session_state.result after the try block: the assignment is skipped
\* when the exception leaves the block before reaching it
StoredAfterClick(old, out) == IF out.raised THEN old ELSE Some(out.result)

Init ==
    /\ version \in Versions
    /\ form = FormDefaults
    /\ pc = "cache"
    /\ trigger = "load"
    /\ screen = {}
    /\ session_result = None
    /\ displayed = None
    /\ captured = None
    /\ calculator = None
    /\ given = None
    /\ returned = None
    /\ memo = None

\* every run executes the script from the top with fresh script variables;
\* only st.session_state and the widget values outlive it
StartRun(t) ==
    /\ pc = "idle"
    /\ pc' = "cache"
    /\ trigger' = t
    /\ screen' = {}
    /\ displayed' = None
    /\ calculator' = None
    /\ given' = None
    /\ returned' = None
    /\ UNCHANGED <<version, session_result, captured, memo>>

\* the user reruns the script from the menu
Rerun == StartRun("rerun") /\ UNCHANGED form

\* the user clicks the sidebar button
ClickClearCache ==
    /\ "clear_cache_button" \in screen
    /\ StartRun("clear_cache")
    /\ UNCHANGED form

\* the user sets one input widget to another value
EditField ==
    /\ "form" \in screen
    /\ \E k \in DOMAIN form : \E v \in FieldChoices[k] :
        /\ v # form[k]
        /\ Changed([form EXCEPT ![k] = v]) <= MaxChanged
        /\ form' = [form EXCEPT ![k] = v]
    /\ StartRun("edit")

\* the user clicks Calculate Mix Design
ClickCalculate ==
    /\ "calculate_button" \in screen
    /\ StartRun("calculate")
    /\ UNCHANGED form

\* cache initialisation and the sidebar button
CacheInit ==
    /\ pc = "cache"
    /\ screen' = IF trigger = "clear_cache"
                 THEN {"clear_cache_button", "cache_cleared"}
                 ELSE {"clear_cache_button"}
    /\ pc' = "version"
    /\ UNCHANGED <<version, form, trigger, session_result, displayed,
                   captured, calculator, given, returned, memo>>

\* version validation: st.warning and st.stop() unless the version matches
VersionValidation ==
    /\ pc = "version"
    /\ IF VersionOk(version)
       THEN /\ pc' = "inputs"
            /\ UNCHANGED screen
       ELSE /\ pc' = "idle"
            /\ screen' = screen \cup {"version_warning"}
    /\ UNCHANGED <<version, form, trigger, session_result, displayed,
                   captured, calculator, given, returned, memo>>

\* the input widgets are created and return the values of the form
InputsSection ==
    /\ pc = "inputs"
    /\ screen' = screen \cup {"form"}
    /\ pc' = "button"
    /\ UNCHANGED <<version, form, trigger, session_result, displayed,
                   captured, calculator, given, returned, memo>>

\* the button and its handler; fault is an exception raised inside
\* calculate() by something other than its own arithmetic
CalculationLogic ==
    /\ pc = "button"
    /\ pc' = "display"
    /\ IF ButtonPressed(trigger)
       THEN \E fault \in BOOLEAN :
            LET input_params == InputParams(form)
                made == NewCalculator(input_params)
                out == IF fault THEN [raised |-> TRUE, self |-> made]
                       ELSE calculate(made)
            IN  /\ calculator' = Some(out.self)
                /\ given' = Some(input_params)
                /\ returned' = Some(Outcome(out))
                /\ session_result' = StoredAfterClick(session_result, out)
                /\ screen' = screen \cup {"calculate_button"}
                     \cup (IF out.raised THEN {"error"} ELSE {"success"})
                /\ captured' = IF trigger = "calculate" /\ ~out.raised
                               THEN Some(input_params) ELSE captured
       ELSE /\ screen' = screen \cup {"calculate_button"}
            /\ UNCHANGED <<session_result, captured, calculator, given,
                           returned>>
    /\ UNCHANGED <<version, form, trigger, displayed, memo>>

\* the summary table, the chart and the downloads, if a result is stored
ResultsDisplay ==
    /\ pc = "display"
    /\ pc' = "footer"
    /\ IF session_result # None
       THEN /\ displayed' = session_result
            /\ screen' = screen \cup {"results", "exports"}
       ELSE UNCHANGED <<displayed, screen>>
    /\ UNCHANGED <<version, form, trigger, session_result, captured,
                   calculator, given, returned, memo>>

Footer ==
    /\ pc = "footer"
    /\ pc' = "idle"
    /\ screen' = screen \cup {"footer"}
    /\ UNCHANGED <<version, form, trigger, session_result, displayed,
                   captured, calculator, given, returned, memo>>

Next ==
    \/ Rerun
    \/ ClickClearCache
    \/ EditField
    \/ ClickCalculate
    \/ CacheInit
    \/ VersionValidation
    \/ InputsSection
    \/ CalculationLogic
    \/ ResultsDisplay
    \/ Footer

Spec == Init /\ [][Next]_vars

TypeOK ==
    /\ pc \in {"idle", "cache", "version", "inputs", "button", "display",
               "footer"}
    /\ trigger \in {"load", "rerun", "clear_cache", "edit", "calculate"}
    /\ version \in Versions
    /\ Changed(form) <= MaxChanged

-----------------------------------------------------------------------------
(* what the latest calculate() call worked with *)

\* the call returned a result dict
Returned == returned # None /\ ~returned[1].raised

TheSelf == calculator[1]
TheParams == TheSelf.params
TheResult == returned[1].result

\* the volumes calculate() formed from the rounded masses it returns
TheCementVol == cement_vol(TheSelf, TheResult.Cement)
TheWaterVol == water_vol(TheSelf, TheResult.Water)
TheAdmixtureVol == admixture_vol(TheResult.Admixture)
TheTotalAggVol ==
    calculate_aggregate_volumes(TheSelf, TheResult.Cement, TheResult.Water,
                                TheResult.Admixture)
TheFineVol == AggVol(TheParams.fa_ratio, TheTotalAggVol)
TheCoarseVol == AggVol(TheParams.ca_ratio, TheTotalAggVol)

\* the SSD masses before moisture correction, in 0.1 kg
TheFineSSD ==
    RoundDiv(MassSSD(TheParams.fa_ratio, TheParams.fa_sg, TheTotalAggVol),
             10000)
TheCoarseSSD ==
    RoundDiv(MassSSD(TheParams.ca_ratio, TheParams.ca_sg, TheTotalAggVol),
             10000)

\* the water calculate() returns for the same parameters at another slump
WaterAtSlump(s) ==
    calculate(NewCalculator([TheParams EXCEPT !.slump = s])).result.Water

SlumpRange == 25..200

-----------------------------------------------------------------------------
(* C1 *)

\* C1: the absolute volumes of cement, water, admixture, coarse aggregate
\* (ca_ratio * total_agg_vol) and fine aggregate (fa_ratio * total_agg_vol)
\* sum to 1 m3 within 1e-6 for every in-range parameter set.
C1_VolumeClosure ==
    Returned =>
        Abs(TheCementVol + TheWaterVol + TheAdmixtureVol + TheCoarseVol
            + TheFineVol - VolUnit) <= 100

-----------------------------------------------------------------------------
(* C2 *)

\* C2: for every in-range parameter set calculate() returns a result whose
\* five quantities are all non-negative, and the aggregate volume left over
\* is not negative.
C2_NonNegative ==
    returned # None =>
        /\ ~returned[1].raised
        /\ TheResult.Water >= 0
        /\ TheResult.Cement >= 0
        /\ TheResult.FineAggregate >= 0
        /\ TheResult.CoarseAggregate >= 0
        /\ TheResult.Admixture >= 0
        /\ TheTotalAggVol >= 0

\* the in-range corner that leaves least room for aggregate: 0.35 m3
C2_Witness ==
    /\ Returned
    /\ TheResult.Water = 2100
    /\ TheResult.Cement = 7000
    /\ TheResult.Admixture = 700
    /\ TheTotalAggVol = 35000000
    /\ TheResult.FineAggregate > 0

-----------------------------------------------------------------------------
(* C3 *)

\* C3: when the aggregate volume left over is <= 0, calculate() ends in an
\* error instead of returning a result: every result that is returned has a
\* positive aggregate volume and a positive Fine Aggregate mass.
C3_ErrorOnExhaustedVolume ==
    Returned => (TheTotalAggVol > 0 /\ TheResult.FineAggregate > 0)

-----------------------------------------------------------------------------
(* C4 *)

-----------------------------------------------------------------------------
(* C5 *)

\* C5: whenever moisture correction raises the reported aggregate masses
\* above their SSD values, the reported Water is the design water lowered
\* by that same mass (within the rounding of the three masses).
C5_WaterConserved ==
    Returned =>
        LET added == (TheResult.FineAggregate - TheFineSSD)
                     + (TheResult.CoarseAggregate - TheCoarseSSD)
        IN  added > 0 =>
              Abs((estimate_water_content(TheSelf) - TheResult.Water) - added)
                <= 2

-----------------------------------------------------------------------------
(* C6 *)

\* C6: the cement content returned is max(water / w_c_ratio, 300 kg/m3), so
\* never below 300.
C6_CementFloor ==
    Returned =>
        /\ TheResult.Cement >= 3000
        /\ TheResult.Cement
             = Max(RoundDiv(TheResult.Water * 100, TheParams.w_c_ratio), 3000)

-----------------------------------------------------------------------------
(* C7 *)

\* C7: a call of calculate() has the same outcome as any earlier call with
\* an equal parameter record, whether on the same object or on another and
\* whatever was called in between, and leaves the parameter record as it
\* was given.
C7_Deterministic ==
    /\ (calculator # None /\ given # None) => TheParams = given[1]
    /\ (returned # None /\ memo # None /\ memo[1].params = given[1]) =>
          returned[1] = memo[1].outcome

\* a call made after an earlier call on an equal parameter record was put
\* aside
C7_Witness ==
    /\ Returned
    /\ memo # None
    /\ memo[1].params = given[1]
    /\ TheSelf.result = TheResult
    /\ TheParams.use_slump_for_water

-----------------------------------------------------------------------------
(* C8 *)

\* C8: when the calculation raises in a run started by a Calculate click,
\* the handler shows an error, the run goes on to the results section and the
\* footer, and st.session_state.result keeps the value it had.
C8_FailureKeepsResult ==
    /\ [][(pc = "button" /\ trigger = "calculate" /\ returned'[1].raised) =>
            /\ session_result' = session_result
            /\ "error" \in screen'
            /\ pc' = "display"]_vars
    /\ []((pc = "idle" /\ "error" \in screen) => "footer" \in screen)

\* a failed click after a successful one: the earlier result is still
\* stored and shown below the error
C8_Witness ==
    /\ pc = "idle"
    /\ "error" \in screen
    /\ returned # None
    /\ returned[1].raised
    /\ session_result # None
    /\ displayed = session_result
    /\ "footer" \in screen

-----------------------------------------------------------------------------
(* C9 *)

\* C9: st.session_state.result is absent until the first successful click,
\* afterwards it is calculate() of the form values captured at the latest
\* successful click, and only a successful click changes it.
C9_ResultOfLastSuccessfulClick ==
    /\ []((session_result = None) <=> (captured = None))
    /\ [](captured # None =>
            session_result
              = Some(calculate(NewCalculator(captured[1])).result))
    /\ [][session_result' # session_result =>
            (pc = "button" /\ trigger = "calculate"
             /\ ~returned'[1].raised)]_vars

\* the form was edited after the click: the result on display is not the
\* one the current form values would give
C9_Witness ==
    /\ pc = "idle"
    /\ trigger = "edit"
    /\ session_result # None
    /\ displayed = session_result
    /\ "exports" \in screen
    /\ captured[1] # InputParams(form)
    /\ session_result
         # Some(calculate(NewCalculator(InputParams(form))).result)

-----------------------------------------------------------------------------
(* C10 *)

\* C10: the form, the calculation and the results are reached only under
\* Streamlit "1.32.2"; under any other version, the pinned 1.32.0 included,
\* a finished run has shown the warning and nothing is calculated, stored or
\* displayed.
C10_OnlyRequiredVersion ==
    /\ (\/ pc \in {"inputs", "button", "display", "footer"}
        \/ screen \cap {"form", "calculate_button", "success", "error",
                        "results", "exports", "footer"} # {})
         => version = "1.32.2"
    /\ version # "1.32.2" =>
         /\ session_result = None
         /\ displayed = None
         /\ calculator = None
         /\ returned = None
         /\ pc = "idle" => "version_warning" \in screen

\* the pinned version, stopped at the warning again after a rerun
C10_Witness ==
    /\ version = PinnedVersion
    /\ pc = "idle"
    /\ trigger = "rerun"
    /\ "version_warning" \in screen
    /\ "form" \notin screen

====
